---- MODULE Spec2Model ----
(***************************************************************************)
(* Model of toyota.py: the date ledger (DATE_STRUCT, Reporter._load_dates, *)
(* Reporter._save_dates), the first-seen recording done by                 *)
(* Reporter.print_order, and the order loop of main.                       *)
(*                                                                         *)
(* A Python dict is modelled as the sequence of its <<key, value>> pairs   *)
(* in insertion order.  A ledger file holds the JSON text written by       *)
(* json.dump, modelled as its sequence of tokens.                          *)
(***************************************************************************)
EXTENDS Integers, Sequences, FiniteSets, TLC

\* ---------------------------------------------------------------- bounds
MaxDay == 2        \* calendar days the clock can reach
MaxRuns == 2       \* invocations of main
MaxDeliv == 1      \* intermediate deliveries in one order snapshot
MaxObs == 3        \* SpecObs: observations applied to one ledger

\* ------------------------------------------------------- input alphabets
Orders == {"A", "B"}
StepNames == {"X"}
Statuses == {"pending", "inTransit", "delivered"}
LocCodes == {"L"}
Visited == {"notVisited", "visited"}

NoFile == <<"absent">>

VARIABLES
    file,         \* order id -> JSON tokens of "<orderId>.json", or NoFile
    today,        \* the day datetime.today() returns
    DATE_STRUCT,  \* the module-level dict of the running process
    run,          \* number of invocations of main so far
    pc,           \* "idle", "loop", "failed", "done": position of main
    store_dates,  \* the --store-dates flag of the current run
    orders,       \* list returned by fetch_orders in the current run
    idx,          \* index in orders of the next order of the for loop
    reported,     \* orders print_order has been called on in this run
    failure,      \* the request that raised in this run, or "none"
    dates,        \* local `dates` of the last print_order, at its end
    loaded,       \* what _load_dates returned to the last print_order
    tables,       \* the tables the last print_order handed to _print_table
    io,           \* file operations of the last print_order
    ideal,        \* per order: ledger of that order's own observations
    obs,          \* SpecObs: state of the repeated observation
    race          \* SpecRace: state of the two concurrent processes

vars == <<file, today, DATE_STRUCT, run, pc, store_dates, orders, idx,
          reported, failure, dates, loaded, tables, io, ideal, obs, race>>

mainVars == <<DATE_STRUCT, run, pc, store_dates, orders, idx, reported,
              failure, dates, loaded, tables, io, ideal>>

\* F applied to the value of v, v being evaluated once
Let(v, F(_)) == CHOOSE r \in {F(x) : x \in {v}} : TRUE

\* ------------------------------------------------------------ Python dict
Keys(d) == {d[i][1] : i \in 1..Len(d)}

Has(d, k) == k \in Keys(d)

Get(d, k) == d[CHOOSE i \in 1..Len(d) : d[i][1] = k][2]

\* d[k] = v: replaces the value in place, or appends a new key
Put(d, k, v) ==
    IF Has(d, k)
    THEN [i \in 1..Len(d) |-> IF d[i][1] = k THEN <<k, v>> ELSE d[i]]
    ELSE Append(d, <<k, v>>)

\* dict == dict in Python: same keys, equal values, order ignored
DictEq(a, b) ==
    /\ Keys(a) = Keys(b)
    /\ \A k \in Keys(a) : Get(a, k) = Get(b, k)

SubDictEq(a, b) ==
    /\ Keys(a) = Keys(b)
    /\ \A k \in Keys(a) : DictEq(Get(a, k), Get(b, k))

DeepEq(a, b) ==
    /\ Keys(a) = Keys(b)
    /\ \A k \in Keys(a) : SubDictEq(Get(a, k), Get(b, k))

\* ------------------------------------------------------------- DATE_STRUCT
EmptyLedger == << <<"steps", <<>> >>, <<"deliveries", <<>> >> >>

\* ------------------------------------------------------------------- JSON
LBrace == <<"p", "{">>
RBrace == <<"p", "}">>
Colon == <<"p", ":">>
Comma == <<"p", ",">>
Str(s) == <<"s", s>>

RECURSIVE DumpObj(_, _)
RECURSIVE DumpMembers(_, _, _)
DumpMembers(d, i, depth) ==
    IF i > Len(d) THEN <<>>
    ELSE (IF i > 1 THEN <<Comma>> ELSE <<>>)
         \o <<Str(d[i][1]), Colon>>
         \o (IF depth = 0 THEN <<Str(d[i][2])>> ELSE DumpObj(d[i][2], depth - 1))
         \o DumpMembers(d, i + 1, depth)

DumpObj(d, depth) == <<LBrace>> \o DumpMembers(d, 1, depth) \o <<RBrace>>

\* json.dump(dates, fp)
JsonDump(d) == DumpObj(d, 2)

RECURSIVE ParseObj(_, _, _)
RECURSIVE ParseMembers(_, _, _, _)
ParseMembers(toks, i, depth, acc) ==
    Let(IF depth = 0
        THEN [v |-> toks[i + 2][2], n |-> i + 3]
        ELSE ParseObj(toks, i + 2, depth - 1),
        LAMBDA val :
          Let(Put(acc, toks[i][2], val.v),
              LAMBDA acc2 :
                IF toks[val.n] = Comma
                THEN ParseMembers(toks, val.n + 1, depth, acc2)
                ELSE [v |-> acc2, n |-> val.n + 1]))

ParseObj(toks, i, depth) ==
    IF toks[i + 1] = RBrace
    THEN [v |-> <<>>, n |-> i + 2]
    ELSE ParseMembers(toks, i + 1, depth, <<>>)

\* json.load(fp)
JsonLoad(toks) == ParseObj(toks, 1, 2).v

\* ------------------------------------------------------------ annotations
\* datetime.today().strftime("%Y-%m-%d")
Strftime(d) == "2024-01-" \o (IF d < 10 THEN "0" ELSE "") \o ToString(d)

\* " | ".join(f"{kd}: {vd}" for kd, vd in m.items())
RECURSIVE JoinFrom(_, _)
JoinFrom(m, i) ==
    IF i > Len(m) THEN ""
    ELSE (IF i > 1 THEN " | " ELSE "") \o m[i][1] \o ": " \o m[i][2]
         \o JoinFrom(m, i + 1)

Annotation(m) == JoinFrom(m, 1)

\* ------------------------------------------------------ order snapshots
\* order["preprocessed"]["steps"]: dict, step name -> status, in API order
StepSeqs ==
    {q \in UNION {[1..n -> StepNames \X Statuses] :
                     n \in 0..Cardinality(StepNames)} :
        \A i, j \in 1..Len(q) : i # j => q[i][1] # q[j][1]}

\* order["intermediateDeliveries"]: list of (locationCode, isVisited)
DelivSeqs == UNION {[1..n -> LocCodes \X Visited] : n \in 0..MaxDeliv}

Snapshots == [steps : StepSeqs, deliveries : DelivSeqs]

\* fetch_orders: the ids of the account's orders, in any order
OrderLists ==
    {q \in UNION {[1..n -> Orders] : n \in 0..Cardinality(Orders)} :
        \A i, j \in 1..Len(q) : i # j => q[i] # q[j]}

\* ------------------------------------------------------ transition tracker
\* a variant of RecordStepObservation that stamps the status at every
\* observation (the `not in` test of line 202 dropped)
RecordStepOverwrites(ledger, k, status, day) ==
    LET steps0 == Get(ledger, "steps")
        steps1 == IF ~Has(steps0, k) THEN Put(steps0, k, <<>>) ELSE steps0
        m1 == Get(steps1, k)
        m2 == IF status # "pending"
              THEN Put(m1, status, Strftime(day))
              ELSE m1
    IN  [ledger |-> Put(ledger, "steps", Put(steps1, k, m2)),
         annotation |-> Annotation(m2)]

\* a variant of RecordStepObservation without the test on "pending"
RecordStepNoSentinel(ledger, k, status, day) ==
    LET steps0 == Get(ledger, "steps")
        steps1 == IF ~Has(steps0, k) THEN Put(steps0, k, <<>>) ELSE steps0
        m1 == Get(steps1, k)
        m2 == IF ~Has(m1, status)
              THEN Put(m1, status, Strftime(day))
              ELSE m1
    IN  [ledger |-> Put(ledger, "steps", Put(steps1, k, m2)),
         annotation |-> Annotation(m2)]

\* body of `for k, v in steps.items()` under store_dates: the updated
\* ledger and the string appended to the row
RecordStepObservation(ledger, k, status, day) ==
    LET steps0 == Get(ledger, "steps")
        steps1 == IF ~Has(steps0, k) THEN Put(steps0, k, <<>>) ELSE steps0
        m1 == Get(steps1, k)
        m2 == IF ~Has(m1, status) /\ status # "pending"
              THEN Put(m1, status, Strftime(day))
              ELSE m1
    IN  [ledger |-> Put(ledger, "steps", Put(steps1, k, m2)),
         annotation |-> Annotation(m2)]

\* body of `for d in deliveries` under store_dates
RecordDeliveryObservation(ledger, code, isVisited, day) ==
    LET dl0 == Get(ledger, "deliveries")
        dl1 == IF ~Has(dl0, code) THEN Put(dl0, code, <<>>) ELSE dl0
        m1 == Get(dl1, code)
        m2 == IF ~Has(m1, isVisited) /\ isVisited # "notVisited"
              THEN Put(m1, isVisited, Strftime(day))
              ELSE m1
    IN  [ledger |-> Put(ledger, "deliveries", Put(dl1, code, m2)),
         annotation |-> Annotation(m2)]

\* the steps loop: rows are [k, location, status] plus the annotation when
\* store_dates is set; the ledger is touched only when it is set
RECURSIVE StepLoop(_, _, _, _, _, _)
StepLoop(ledger, steps, i, day, track, rows) ==
    IF i > Len(steps) THEN [ledger |-> ledger, rows |-> rows]
    ELSE LET k == steps[i][1]
             st == steps[i][2]
             r == RecordStepObservation(ledger, k, st, day)
         IN  IF track
             THEN StepLoop(r.ledger, steps, i + 1, day, track,
                           Append(rows, <<k, "", st, r.annotation>>))
             ELSE StepLoop(ledger, steps, i + 1, day, track,
                           Append(rows, <<k, "", st>>))

RECURSIVE DeliveryLoop(_, _, _, _, _, _)
DeliveryLoop(ledger, ds, i, day, track, rows) ==
    IF i > Len(ds) THEN [ledger |-> ledger, rows |-> rows]
    ELSE LET code == ds[i][1]
             vis == ds[i][2]
             cells == <<code \o ", " \o "cc", "name" \o ", " \o "country",
                        "type", "transport", vis>>
             r == RecordDeliveryObservation(ledger, code, vis, day)
         IN  IF track
             THEN DeliveryLoop(r.ledger, ds, i + 1, day, track,
                               Append(rows, Append(cells, r.annotation)))
             ELSE DeliveryLoop(ledger, ds, i + 1, day, track,
                               Append(rows, cells))

StepHeader(track) ==
    <<"Step", "Location", "Status">> \o (IF track THEN <<"Dates">> ELSE <<>>)

DeliveryHeader(track) ==
    <<"Loc. Code", "Location", "Loc. Type", "Transport", "Visited">>
    \o (IF track THEN <<"Dates">> ELSE <<>>)

\* the table passed to _print_table; <<>> when the snapshot has none
\* ("order has no steps." / "order has no deliveries.")
MkTable(header, rows) == IF rows = <<>> THEN <<>> ELSE <<header>> \o rows

\* the two loops of print_order applied to a ledger; datetime.today() is
\* read at each observation: `day` is what the steps loop reads, `day2`
\* what the deliveries loop reads
Merge(ledger, snap, day, day2, track) ==
    Let(StepLoop(ledger, snap.steps, 1, day, track, <<>>),
        LAMBDA s :
          Let(DeliveryLoop(s.ledger, snap.deliveries, 1, day2, track, <<>>),
              LAMBDA d :
                [ledger |-> d.ledger,
                 tables |-> [steps |-> MkTable(StepHeader(track), s.rows),
                             deliveries |->
                                 MkTable(DeliveryHeader(track), d.rows)]]))

\* ---------------------------------------------------------- date ledger
\* Reporter._load_dates: `dates = DATE_STRUCT` binds the module-level dict
\* itself; it is replaced by the parsed file only when the file exists
LoadDates(files, shared, o) ==
    IF files[o] # NoFile
    THEN [shared |-> FALSE, dates |-> JsonLoad(files[o])]
    ELSE [shared |-> TRUE, dates |-> shared]

\* a variant of SaveDates that leaves an existing file alone
SaveDatesKeep(files, o, ledger) ==
    IF files[o] # NoFile THEN files ELSE [files EXCEPT ![o] = JsonDump(ledger)]

\* Reporter._save_dates
SaveDates(files, o, ledger) == [files EXCEPT ![o] = JsonDump(ledger)]

NotLoaded == [called |-> FALSE, hadFile |-> FALSE, dates |-> <<>>]

\* print_order with store_dates set: load, the two loops, save.  `shared`
\* is DATE_STRUCT; the loops mutate in place the dict that `dates` is bound
\* to, which is DATE_STRUCT itself when no file exists
TrackedOrder(files, shared, o, snap, day, day2) ==
    Let(LoadDates(files, shared, o),
        LAMBDA ld :
          Let(Merge(ld.dates, snap, day, day2, TRUE),
              LAMBDA m :
                [file |-> SaveDates(files, o, m.ledger),
                 DATE_STRUCT |-> IF ld.shared THEN m.ledger ELSE shared,
                 dates |-> m.ledger,
                 loaded |-> [called |-> TRUE, hadFile |-> ~ld.shared,
                             dates |-> ld.dates],
                 tables |-> m.tables,
                 io |-> IF ld.shared THEN {"exists", "write"}
                        ELSE {"exists", "read", "write"}]))

\* print_order with store_dates unset: every `if store_dates:` is skipped
UntrackedOrder(files, shared, o, snap, day, day2) ==
    [file |-> files,
     DATE_STRUCT |-> shared,
     dates |-> <<>>,
     loaded |-> NotLoaded,
     tables |-> Merge(EmptyLedger, snap, day, day2, FALSE).tables,
     io |-> {}]

\* a variant of PrintOrder that tracks whatever the flag says
PrintOrderAlwaysTracks(files, shared, o, snap, day, day2, track) ==
    TrackedOrder(files, shared, o, snap, day, day2)

\* Reporter.print_order(order, store_dates) as a whole
PrintOrder(files, shared, o, snap, day, day2, track) ==
    IF track
    THEN TrackedOrder(files, shared, o, snap, day, day2)
    ELSE UntrackedOrder(files, shared, o, snap, day, day2)

NoTables == [steps |-> <<>>, deliveries |-> <<>>]

\* ------------------------------------------------------------------ main
MainInit ==
    /\ file = [o \in Orders |-> NoFile]
    /\ today = 1
    /\ DATE_STRUCT = EmptyLedger
    /\ run = 0
    /\ pc = "idle"
    /\ store_dates = FALSE
    /\ orders = <<>>
    /\ idx = 1
    /\ reported = <<>>
    /\ failure = "none"
    /\ dates = <<>>
    /\ loaded = NotLoaded
    /\ tables = NoTables
    /\ io = {}
    /\ ideal = [o \in Orders |-> EmptyLedger]

ObsIdle == [on |-> FALSE]
RaceIdle == [on |-> FALSE]

Init ==
    /\ MainInit
    /\ obs = ObsIdle
    /\ race = RaceIdle

\* a new process: the module is imported (DATE_STRUCT is the literal of
\* line 17), ToyotaSession authenticates, fetch_orders returns the ids
Start ==
    /\ pc \in {"idle", "done", "failed"}
    /\ run < MaxRuns
    /\ \E flag \in BOOLEAN, os \in OrderLists :
        /\ store_dates' = flag
        /\ orders' = os
    /\ run' = run + 1
    /\ pc' = "loop"
    /\ idx' = 1
    /\ reported' = <<>>
    /\ failure' = "none"
    /\ DATE_STRUCT' = EmptyLedger
    /\ dates' = <<>>
    /\ loaded' = NotLoaded
    /\ tables' = NoTables
    /\ io' = {}
    /\ UNCHANGED <<file, today, ideal, obs, race>>

\* _authenticate or fetch_orders raises ValueError: main ends before the loop
StartFail ==
    /\ pc \in {"idle", "done", "failed"}
    /\ run < MaxRuns
    /\ \E flag \in BOOLEAN : store_dates' = flag
    /\ \E f \in {"authenticate", "fetch_orders"} : failure' = f
    /\ orders' = <<>>
    /\ run' = run + 1
    /\ pc' = "failed"
    /\ idx' = 1
    /\ reported' = <<>>
    /\ DATE_STRUCT' = EmptyLedger
    /\ dates' = <<>>
    /\ loaded' = NotLoaded
    /\ tables' = NoTables
    /\ io' = {}
    /\ UNCHANGED <<file, today, ideal, obs, race>>

\* a variant of FetchFailed that skips the order and goes on with the next
FetchSkipped(p, i) == [pc |-> "loop", idx |-> i + 1]

\* what main does when fetch_order_details raises: the exception leaves the
\* for loop and main
FetchFailed(p, i) == [pc |-> "failed", idx |-> i]

FetchFail ==
    /\ pc = "loop"
    /\ idx <= Len(orders)
    /\ pc' = FetchFailed(pc, idx).pc
    /\ idx' = FetchFailed(pc, idx).idx
    /\ failure' = "fetch_order_details"
    /\ dates' = <<>>
    /\ loaded' = NotLoaded
    /\ tables' = NoTables
    /\ io' = {}
    /\ UNCHANGED <<file, today, DATE_STRUCT, run, store_dates, orders,
                   reported, ideal, obs, race>>

\* the days the clock can show later in a call that started on `day`
LaterDays(day) == {d \in {day, day + 1} : d <= MaxDay}

\* one iteration of the for loop: fetch_order_details succeeds and
\* print_order runs on the snapshot
ProcessOrder ==
    /\ pc = "loop"
    /\ idx <= Len(orders)
    /\ \E snap \in Snapshots, day2 \in LaterDays(today), o \in {orders[idx]} :
        \E r \in {PrintOrder(file, DATE_STRUCT, o, snap, today, day2,
                             store_dates)} :
            /\ today' = day2
            /\ file' = r.file
            /\ DATE_STRUCT' = r.DATE_STRUCT
            /\ dates' = r.dates
            /\ loaded' = r.loaded
            /\ tables' = r.tables
            /\ io' = r.io
            /\ reported' = Append(reported, o)
            /\ ideal' = IF store_dates
                        THEN [ideal EXCEPT
                                ![o] = Merge(@, snap, today, day2, TRUE).ledger]
                        ELSE ideal
    /\ idx' = idx + 1
    /\ UNCHANGED <<run, pc, store_dates, orders, failure, obs, race>>

\* the for loop is exhausted: main returns
Finish ==
    /\ pc = "loop"
    /\ idx > Len(orders)
    /\ pc' = "done"
    /\ dates' = <<>>
    /\ loaded' = NotLoaded
    /\ tables' = NoTables
    /\ io' = {}
    /\ UNCHANGED <<file, today, DATE_STRUCT, run, store_dates, orders, idx,
                   reported, failure, ideal, obs, race>>

\* midnight passes
Tick ==
    /\ today < MaxDay
    /\ today' = today + 1
    /\ UNCHANGED <<file, mainVars, obs, race>>

Next ==
    \/ Start
    \/ StartFail
    \/ FetchFail
    \/ ProcessOrder
    \/ Finish
    \/ Tick

Spec == Init /\ [][Next]_vars

\* ---------------------------------------------------------------------
\* SpecOne: main on an account whose order B is new (the API reports no
\* steps and no deliveries for it yet) and is listed before order A
OneLists == {<<>>, <<"A">>, <<"B", "A">>}

StartOne ==
    /\ Start
    /\ orders' \in OneLists

ProcessOne ==
    /\ ProcessOrder
    /\ orders[idx] = "B" => tables' = NoTables

NextOne ==
    \/ StartOne
    \/ StartFail
    \/ FetchFail
    \/ ProcessOne
    \/ Finish
    \/ Tick

SpecOne == Init /\ [][NextOne]_vars

\* ---------------------------------------------------------------------
\* SpecObs: the two recording functions applied, one observation at a
\* time, to a ledger drawn from the ledgers the program can have saved
DateStrs == {Strftime(d) : d \in 1..MaxDay}

DistinctKeys(q) == \A i, j \in 1..Len(q) : i # j => q[i][1] # q[j][1]

InnerDicts(vals) ==
    {q \in UNION {[1..n -> vals \X DateStrs] : n \in 0..Cardinality(vals)} :
        DistinctKeys(q)}

SubDicts(keys, vals) ==
    {q \in UNION {[1..n -> keys \X InnerDicts(vals)] :
                     n \in 0..Cardinality(keys)} :
        DistinctKeys(q)}

StartLedgers ==
    {<< <<"steps", st>>, <<"deliveries", dl>> >> :
        st \in SubDicts(StepNames, Statuses \ {"pending"}),
        dl \in SubDicts(LocCodes, Visited \ {"notVisited"})}

NoObs == [sub |-> "none", key |-> "", value |-> "", day |-> 0,
          annotation |-> "", after |-> <<>>]

ObsInit ==
    /\ MainInit
    /\ race = RaceIdle
    /\ obs \in {[on |-> TRUE, ledger |-> l, n |-> 0, prev |-> NoObs,
                 last |-> NoObs, fresh |-> {}] : l \in StartLedgers}

\* the record kept of one observation; `fresh` holds the keys that were
\* absent from the ledger and have been observed with the sentinel only
Observed(sub, key, value, sentinel, r) ==
    [obs EXCEPT
        !.ledger = r.ledger,
        !.n = @ + 1,
        !.prev = obs.last,
        !.last = [sub |-> sub, key |-> key, value |-> value, day |-> today,
                  annotation |-> r.annotation, after |-> r.ledger],
        !.fresh = IF value # sentinel THEN @ \ {<<sub, key>>}
                  ELSE IF ~Has(Get(obs.ledger, sub), key)
                       THEN @ \cup {<<sub, key>>}
                       ELSE @]

ObserveStep ==
    /\ obs.on
    /\ obs.n < MaxObs
    /\ \E k \in StepNames, st \in Statuses :
        obs' = Observed("steps", k, st, "pending",
                        RecordStepObservation(obs.ledger, k, st, today))
    /\ UNCHANGED <<file, today, mainVars, race>>

ObserveDelivery ==
    /\ obs.on
    /\ obs.n < MaxObs
    /\ \E c \in LocCodes, v \in Visited :
        obs' = Observed("deliveries", c, v, "notVisited",
                        RecordDeliveryObservation(obs.ledger, c, v, today))
    /\ UNCHANGED <<file, today, mainVars, race>>

ObsNext ==
    \/ ObserveStep
    \/ ObserveDelivery
    \/ Tick

SpecObs == ObsInit /\ [][ObsNext]_vars

\* ---------------------------------------------------------------------
\* SpecRace: two processes run a tracked print_order of order "A" at the
\* same time, each in its own interpreter, interleaved at load, the loops,
\* and save
Procs == {"p1", "p2"}

RaceStartFiles ==
    {NoFile} \cup
    {JsonDump(Merge(EmptyLedger, sn, 1, 1, TRUE).ledger) : sn \in Snapshots}

RaceInit ==
    /\ today = 1
    /\ file \in {[o \in Orders |-> IF o = "A" THEN f ELSE NoFile] :
                    f \in RaceStartFiles}
    /\ DATE_STRUCT = EmptyLedger
    /\ run = 0
    /\ pc = "idle"
    /\ store_dates = FALSE
    /\ orders = <<>>
    /\ idx = 1
    /\ reported = <<>>
    /\ failure = "none"
    /\ dates = <<>>
    /\ loaded = NotLoaded
    /\ tables = NoTables
    /\ io = {}
    /\ ideal = [o \in Orders |-> EmptyLedger]
    /\ obs = ObsIdle
    /\ race = [on |-> TRUE,
               at |-> [p \in Procs |-> "start"],
               dates |-> [p \in Procs |-> <<>>],
               saves |-> <<>>]

\* dates_file, dates = cls._load_dates(...); the process has just started,
\* so its DATE_STRUCT is still the literal
RaceLoad(p) ==
    /\ race.on
    /\ race.at[p] = "start"
    /\ race' = [race EXCEPT
                  !.at[p] = "loaded",
                  !.dates[p] = LoadDates(file, EmptyLedger, "A").dates]
    /\ UNCHANGED <<file, today, mainVars, obs>>

\* the two loops on the fetched snapshot
RaceMerge(p) ==
    /\ race.on
    /\ race.at[p] = "loaded"
    /\ \E sn \in Snapshots, day2 \in LaterDays(today) :
        /\ today' = day2
        /\ race' = [race EXCEPT
                      !.at[p] = "merged",
                      !.dates[p] = Merge(@, sn, today, day2, TRUE).ledger]
    /\ UNCHANGED <<file, mainVars, obs>>

\* cls._save_dates(dates_file, dates)
RaceSave(p) ==
    /\ race.on
    /\ race.at[p] = "merged"
    /\ file' = SaveDates(file, "A", race.dates[p])
    /\ race' = [race EXCEPT !.at[p] = "saved", !.saves = Append(@, p)]
    /\ UNCHANGED <<today, mainVars, obs>>

RaceNext ==
    \/ \E p \in Procs : RaceLoad(p)
    \/ \E p \in Procs : RaceMerge(p)
    \/ \E p \in Procs : RaceSave(p)
    \/ Tick

SpecRace == RaceInit /\ [][RaceNext]_vars

\* ------------------------------------------------------------ properties
\* the <<key, value, date>> entries of one sub-mapping of a ledger
Entries(ledger, sub) ==
    LET d == Get(ledger, sub)
    IN  UNION {{<<k, m[1], m[2]>> : m \in {Get(d, k)[i] : i \in 1..Len(Get(d, k))}}
               : k \in Keys(d)}

Subs == {"steps", "deliveries"}

FileLedger(o) == JsonLoad(file[o])

LastOrder == reported[Len(reported)]

\* the state right after a print_order with store_dates set
AfterTracked == pc = "loop" /\ reported # <<>> /\ loaded.called

\* the state right after a print_order with store_dates unset
AfterUntracked == pc = "loop" /\ reported # <<>> /\ ~loaded.called

\* C1: once the saved ledger of an order holds a date for a (step, status)
\* or (location, visited-state) pair, every later step of the program
\* leaves the file in place with that pair at the same date.
C1_FirstDateFrozen ==
    [][\A o \in Orders :
         (file[o] # NoFile /\ file'[o] # file[o]) =>
           /\ file'[o] # NoFile
           /\ \A sub \in Subs :
                Entries(JsonLoad(file[o]), sub)
                  \subseteq Entries(JsonLoad(file'[o]), sub)]_vars

\* a tracked run on day 2 has just observed "inTransit" again for a step
\* whose saved ledger recorded it on day 1
C1_Witness ==
    /\ AfterTracked
    /\ loaded.hadFile
    /\ today = 2
    /\ tables.steps # <<>>
    /\ tables.steps[2][3] = "inTransit"
    /\ tables.steps[2][4] = "inTransit: 2024-01-01"

\* C2: the ledger saved for an order holds only step names and location
\* codes that appeared in tracked snapshots of that same order.
C2_NoCrossOrderState ==
    \A o \in Orders :
        file[o] # NoFile =>
            \A sub \in Subs :
                Keys(Get(FileLedger(o), sub)) \subseteq Keys(Get(ideal[o], sub))

\* C3: a load of an order that has no ledger file returns the empty ledger.
C3_EmptyDefault ==
    (AfterTracked /\ ~loaded.hadFile) => loaded.dates = EmptyLedger

\* C6: after a tracked print_order, the annotation of every step row lists
\* the statuses of that order's step in the order the runs first observed
\* them, each with the day of that first observation.
C6_FirstObservationOrder ==
    AfterTracked =>
        \A i \in 2..Len(tables.steps) :
            tables.steps[i][4] =
                Annotation(Get(Get(ideal[LastOrder], "steps"), tables.steps[i][1]))

\* C7: a print_order with store_dates unset leaves every ledger file and
\* DATE_STRUCT as they were, touches no file, binds no ledger, and hands
\* _print_table rows without the Dates column.
C7_UntrackedFrame ==
    [][(pc = "loop" /\ ~store_dates /\ reported' # reported) =>
         /\ file' = file
         /\ DATE_STRUCT' = DATE_STRUCT
         /\ io' = {}
         /\ ~loaded'.called
         /\ \A i \in 1..Len(tables'.steps) : Len(tables'.steps[i]) = 3
         /\ \A i \in 1..Len(tables'.deliveries) :
                Len(tables'.deliveries[i]) = 5
         /\ \A t \in {tables'.steps, tables'.deliveries} :
                \A i \in 1..Len(t) : \A j \in 1..Len(t[i]) : t[i][j] # "Dates"]_vars

\* an untracked print_order has printed both tables for an order that has
\* a ledger file
C7_Witness ==
    /\ AfterUntracked
    /\ tables.steps # <<>>
    /\ tables.deliveries # <<>>
    /\ file[LastOrder] # NoFile

\* C8: when fetch_order_details raises for the k-th order, main is left in
\* the failed state with only the k-1 orders before it reported, and for
\* the rest of that run no file changes, nothing more is reported and the
\* loop does not move.
C8_FetchFailureAborts ==
    /\ [](failure = "fetch_order_details" =>
            /\ pc = "failed"
            /\ idx <= Len(orders)
            /\ reported = SubSeq(orders, 1, idx - 1)
            /\ io = {})
    /\ [][(failure = "fetch_order_details" /\ run' = run) =>
            /\ file' = file
            /\ DATE_STRUCT' = DATE_STRUCT
            /\ reported' = reported
            /\ idx' = idx
            /\ pc' = pc]_vars

\* the fetch for the first of two orders failed in a tracked run
C8_Witness ==
    /\ failure = "fetch_order_details"
    /\ store_dates
    /\ Len(orders) = 2
    /\ idx = 1

\* C9: after every tracked print_order the file of the order exists, was
\* written by this call, and loading it gives a ledger deep-equal to the
\* in-memory ledger at the end of the call.
C9_SaveLoadRoundTrip ==
    AfterTracked =>
        /\ "write" \in io
        /\ file[LastOrder] # NoFile
        /\ ~LoadDates(file, DATE_STRUCT, LastOrder).shared
        /\ DeepEq(LoadDates(file, DATE_STRUCT, LastOrder).dates, dates)

\* a tracked print_order of an order that had a file, whose snapshot added
\* nothing to a ledger holding a date for step X and one for location L
C9_Witness ==
    /\ AfterTracked
    /\ loaded.hadFile
    /\ dates = loaded.dates
    /\ Has(Get(dates, "steps"), "X")
    /\ Get(Get(dates, "steps"), "X") # <<>>
    /\ Has(Get(dates, "deliveries"), "L")
    /\ Get(Get(dates, "deliveries"), "L") # <<>>

\* no mapping of the ledger has the sentinel of its domain as a key
NoSentinel(ledger) ==
    /\ \A k \in Keys(Get(ledger, "steps")) :
          ~Has(Get(Get(ledger, "steps"), k), "pending")
    /\ \A c \in Keys(Get(ledger, "deliveries")) :
          ~Has(Get(Get(ledger, "deliveries"), c), "notVisited")

\* C4: starting from a ledger without sentinel entries, after any sequence
\* of observations no step has the key "pending" and no location the key
\* "notVisited", and a step (location) that was not in the ledger and has
\* been observed only as "pending" ("notVisited") has an entry whose
\* mapping is empty.
C4_SentinelNeverRecorded ==
    obs.on =>
        /\ NoSentinel(obs.ledger)
        /\ \A f \in obs.fresh :
              /\ Has(Get(obs.ledger, f[1]), f[2])
              /\ Get(Get(obs.ledger, f[1]), f[2]) = <<>>

\* step X and location L were both new to the ledger and have been
\* observed with their sentinels only
C4_Witness ==
    /\ obs.on
    /\ obs.n >= 2
    /\ obs.fresh = {<<"steps", "X">>, <<"deliveries", "L">>}

SameObservation(a, b) ==
    a.sub = b.sub /\ a.key = b.key /\ a.value = b.value

\* C5: a step observation that repeats the one before it (same step name
\* and status, on any day) leaves the ledger as the one before left it and
\* produces the same annotation.
C5_RepeatIsIdempotent ==
    (obs.on /\ obs.last.sub = "steps" /\ SameObservation(obs.prev, obs.last)) =>
        /\ obs.last.after = obs.prev.after
        /\ obs.last.annotation = obs.prev.annotation

\* the same non-sentinel status of a step observed three times in a row,
\* the last time on a later day than the time before
C5_Witness ==
    /\ obs.on
    /\ obs.n = 3
    /\ obs.last.sub = "steps"
    /\ obs.last.value = "inTransit"
    /\ SameObservation(obs.prev, obs.last)
    /\ obs.prev.day < obs.last.day
    /\ obs.last.after = obs.ledger

\* C10: once both processes have saved, the file holds the in-memory
\* ledger of the process that saved last, and an entry that only the other
\* process holds is not in the file.
C10_LastWriterWins ==
    (race.on /\ Len(race.saves) = 2) =>
        LET first == race.dates[race.saves[1]]
            last == race.dates[race.saves[2]]
        IN  /\ file["A"] # NoFile
            /\ DeepEq(FileLedger("A"), last)
            /\ \A sub \in Subs :
                  \A e \in Entries(first, sub) \ Entries(last, sub) :
                      e \notin Entries(FileLedger("A"), sub)

\* both processes have saved and the first saver holds an entry the last
\* saver does not: the update is lost
C10_Witness ==
    /\ race.on
    /\ Len(race.saves) = 2
    /\ \E sub \in Subs :
          Entries(race.dates[race.saves[1]], sub)
            \ Entries(race.dates[race.saves[2]], sub) # {}
====
